---------------------------- MODULE Spec2Model ----------------------------
(***************************************************************************)
(* Model of the monad checkpoint / alert-key / deny-address stores         *)
(* (src/database/checkpoint.go, src/checkpoint/checkpoint.go).             *)
(*                                                                         *)
(* Each of the four stores owns one goleveldb handle.  The engine is       *)
(* modelled as an ordered map from byte-string keys to values that lives   *)
(* on disk (it survives Close), reached through the handle the engine      *)
(* returned from OpenFile.  Engine outcomes the code branches on are       *)
(* inputs of the actions: OpenFile succeeding or failing, Get failing      *)
(* with an error other than "not found", a Delete failing inside ClearDB.  *)
(* The code discards the error of its Put and Delete calls in Add, Delete  *)
(* and Set; a failed write there leaves every variable unchanged and is a  *)
(* stuttering step of the model.                                           *)
(*                                                                         *)
(* The Get*DbPath functions are modelled for both packages with the        *)
(* network selection of each call as its input; the store models run with  *)
(* the default command line, under which the path resolution inside OpenDB *)
(* leaves the package variables as they are.  OpenDB is also modelled      *)
(* statement by statement for goroutines that call it concurrently.        *)
(*                                                                         *)
(* TLC integers are 32 bits wide, so a 64-bit signed height is kept as     *)
(* <<sign, hi, mid, lo>> with magnitude hi*10^14 + mid*10^7 + lo.          *)
(***************************************************************************)
EXTENDS Integers, Sequences, FiniteSets, TLC

VARIABLES
    handle,     \* handle[ns]: the store's *leveldb.DB field; "nil" or a handle id
    live,       \* live[ns]: the handle id the engine holds open at the path; "nil" if none
    opens,      \* opens[ns]: number of leveldb.OpenFile calls made for the store
    closes,     \* closes[ns]: number of DB.Close calls made for the store
    ucData,     \* on-disk content of usercheckpoints_leveldb: key -> hash
    vcData,     \* on-disk content of volatilecheckpoints_leveldb: key -> hash
    akData,     \* on-disk content of alertkey_leveldb: key -> "true" / "false"
    daData,     \* on-disk content of denyaddress_leveldb: address -> "0"
    panicked,   \* "no"; the method that dereferenced a nil handle, or "os.Exit" (the process is gone)
    op,         \* the last call that returned: its name, its store, what it met
    ret,        \* what that call returned
    revoked,    \* history: the alert keys AlertKey.Set has been called on
    shown,      \* history: until a store is open again, the records readable just before its Close
    pc,         \* pc[g]: where goroutine g is inside Get*DbInstance
    cur,        \* cur[g]: which store's Get*DbInstance goroutine g is calling
    done,       \* done[ns]: the sync.Once of the store has completed
    mu,         \* mu[ns]: the goroutine holding the sync.Once mutex, or "free"
    instance,   \* instance[ns]: the package-level singleton pointer; "nil" or an object id
    built,      \* built[ns]: number of times the store object has been constructed
    got,        \* got[ns]: every value Get*DbInstance has returned for the store
    activeNetParams, \* activeNetParams[pkg]: the package-level network parameters
    flags,      \* flags[f]: the value of package database's flag variable f
    firstCall,  \* history: the first Get*DbPath call that returned, and its path
    steady,     \* history: every Get*DbPath call so far had the same network selection
    at,         \* at[g]: where goroutine g is inside OpenDB
    self,       \* self[g]: the store whose OpenDB goroutine g is running
    res,        \* res[g]: the handle and error leveldb.OpenFile returned to g
    returned,   \* history: returned[ns], the results OpenDB calls on the store returned
    iters       \* iters[ns]: iterators of the store created and not released

vars == <<handle, live, opens, closes, ucData, vcData, akData, daData, panicked,
          op, ret, revoked, shown, pc, cur, done, mu, instance, built, got,
          activeNetParams, flags, firstCall, steady, at, self, res, returned, iters>>

storeVars == <<handle, live, opens, closes, ucData, vcData, akData, daData,
               panicked, op, ret, revoked, shown>>
onceVars == <<pc, cur, done, mu, instance, built, got>>
pathVars == <<activeNetParams, flags, firstCall, steady>>
callVars == <<at, self, res, returned>>

\* The four namespaces, by the name of their database-name prefix.
NS == {"usercheckpoints", "volatilecheckpoints", "alertkey", "denyaddress"}

---------------------------------------------------------------------------
(* Bounds of the model.                                                    *)

\* At most this many keys are held in a checkpoint store at once.
MaxKeys == 3
\* At most this many leveldb.OpenFile calls are made per store.
MaxOpens == 2
\* Number of goroutines calling the Get*DbInstance functions or OpenDB.
NumGoroutines == 2
\* At most this many iterators of a store are left unreleased.
MaxIters == 1

---------------------------------------------------------------------------
(* 64-bit signed heights.                                                  *)

RECURSIVE Pow10(_)
Pow10(n) == IF n = 0 THEN 1 ELSE 10 * Pow10(n - 1)

I64(neg, hi, mid, lo) == <<neg, hi, mid, lo>>
IsNeg(h) == h[1]
Mag(h) == <<h[2], h[3], h[4]>>

\* math.MaxInt64 = 9223372036854775807, math.MinInt64 = -9223372036854775808.
MaxInt64 == I64(FALSE, 92233, 7203685, 4775807)
MinInt64 == I64(TRUE, 92233, 7203685, 4775808)
Zero64 == I64(FALSE, 0, 0, 0)
Small(n) == IF n < 0 THEN I64(TRUE, 0, 0, 0 - n) ELSE I64(FALSE, 0, 0, n)

\* Magnitudes compare limb by limb, most significant first.
MagLess(m, n) ==
    \/ m[1] < n[1]
    \/ m[1] = n[1] /\ m[2] < n[2]
    \/ m[1] = n[1] /\ m[2] = n[2] /\ m[3] < n[3]

\* a < b on int64 values.
NumLess(a, b) ==
    IF IsNeg(a) /\ ~IsNeg(b) THEN TRUE
    ELSE IF ~IsNeg(a) /\ IsNeg(b) THEN FALSE
    ELSE IF IsNeg(a) THEN MagLess(Mag(b), Mag(a))
    ELSE MagLess(Mag(a), Mag(b))

\* The heights the callers pass: both ends of int64, negatives, zero, and the
\* heights of the insert/delete scenario.
Heights == {MinInt64, Small(-2), Small(-1), Zero64, Small(50), Small(100),
            Small(200), MaxInt64}

\* The greatest element of a non-empty set of heights.
MaxOf(S) == CHOOSE h \in S : \A k \in S : k = h \/ NumLess(k, h)

---------------------------------------------------------------------------
(* Key encoding: fmt.Sprintf("%020d", height) and strconv.ParseInt.        *)

\* Field width of the "%020d" verb.
Width == 20

\* A key is a sequence of one-character strings; the engine's comparer
\* orders keys by the byte values of their characters.
Code == [c \in {"+", "-", "0", "1", "2", "3", "4", "5", "6", "7", "8", "9"} |->
           CASE c = "+" -> 43 [] c = "-" -> 45 [] c = "0" -> 48 [] c = "1" -> 49
             [] c = "2" -> 50 [] c = "3" -> 51 [] c = "4" -> 52 [] c = "5" -> 53
             [] c = "6" -> 54 [] c = "7" -> 55 [] c = "8" -> 56 [] c = "9" -> 57]
DigitChar == <<"0", "1", "2", "3", "4", "5", "6", "7", "8", "9">>
IsDigit(c) == c \in {DigitChar[i] : i \in 1..10}
DigitVal(c) == Code[c] - Code["0"]

\* The w decimal digits of limb n, most significant first.
LimbChars(n, w) == [i \in 1..w |-> DigitChar[((n \div Pow10(w - i)) % 10) + 1]]

RECURSIVE StripZeros(_)
StripZeros(s) ==
    IF Len(s) > 1 /\ s[1] = "0" THEN StripZeros(Tail(s)) ELSE s

\* Mutant: the zeros are put after the digits.
RECURSIVE ZeroPad_Right(_, _)
ZeroPad_Right(s, w) == IF Len(s) >= w THEN s ELSE ZeroPad_Right(s \o <<"0">>, w)

\* The zeros the flag 0 of the verb puts before the digits, up to width w.
RECURSIVE ZeroPad(_, _)
ZeroPad(s, w) == IF Len(s) >= w THEN s ELSE ZeroPad(<<"0">> \o s, w)

\* The decimal digits of |h| without leading zeros ("0" for zero).
MagChars(h) ==
    StripZeros(LimbChars(h[2], 5) \o LimbChars(h[3], 7) \o LimbChars(h[4], 7))

\* Mutant: the verb "%d", without the zero-padded width.
Format_NoPad(h) ==
    IF IsNeg(h) THEN <<"-">> \o MagChars(h) ELSE MagChars(h)

\* fmt.Sprintf("%020d", h): the sign, if any, comes first and counts towards
\* the width; zeros fill the rest.
Format(h) ==
    IF IsNeg(h) THEN <<"-">> \o ZeroPad(MagChars(h), Width - 1)
    ELSE ZeroPad(MagChars(h), Width)

RECURSIVE LimbVal(_)
LimbVal(s) == IF s = <<>> THEN 0
              ELSE LimbVal(SubSeq(s, 1, Len(s) - 1)) * 10 + DigitVal(s[Len(s)])

\* strconv.ParseInt(s, 10, 64) with its error dropped: 0 on a syntax error,
\* the nearest end of int64 on a range error.
ParseInt(s) ==
    LET signed == s # <<>> /\ s[1] \in {"+", "-"}
        neg == s # <<>> /\ s[1] = "-"
        body == IF signed THEN Tail(s) ELSE s
        sig == StripZeros(body)
        d == ZeroPad(sig, 19)
        m == <<LimbVal(SubSeq(d, 1, 5)), LimbVal(SubSeq(d, 6, 12)),
               LimbVal(SubSeq(d, 13, 19))>>
        limit == IF neg THEN Mag(MinInt64) ELSE Mag(MaxInt64)
    IN  IF body = <<>> \/ \E i \in 1..Len(body) : ~IsDigit(body[i]) THEN Zero64
        ELSE IF Len(sig) > 19 \/ MagLess(limit, m)
             THEN (IF neg THEN MinInt64 ELSE MaxInt64)
        ELSE IF m = <<0, 0, 0>> THEN Zero64
        ELSE I64(neg, m[1], m[2], m[3])

\* bytes.Compare(s, t) < 0, the engine's default key order: the first byte
\* that differs decides; a proper prefix comes first.
RECURSIVE LexLessFrom(_, _, _)
LexLessFrom(s, t, i) ==
    IF i > Len(s) THEN i <= Len(t)
    ELSE IF i > Len(t) THEN FALSE
    ELSE IF s[i] = t[i] THEN LexLessFrom(s, t, i + 1)
    ELSE Code[s[i]] < Code[t[i]]

LexLess(s, t) == LexLessFrom(s, t, 1)

\* The keys the callers' heights are stored under.
KeyOf == [h \in Heights |-> Format(h)]

---------------------------------------------------------------------------
(* The engine: an ordered key-value map per store, reached through a handle. *)

\* The nil *leveldb.DB (no handle); handle ids count from 1.
Nil == 0

UC == "usercheckpoints"
VC == "volatilecheckpoints"
AK == "alertkey"
DA == "denyaddress"

\* Block hashes stored with a height.
Hashes == {"a", "b"}
\* The two alert public keys of the active network, and one other key.
AlertPubMainKey == "AlertPubMainKey"
AlertPubSubKey == "AlertPubSubKey"
AlertKeys == {AlertPubMainKey, AlertPubSubKey, "OtherKey"}
\* Addresses put on the deny list.
Addresses == {"MA1", "MA2", "MA3"}

Data(ns) == CASE ns = UC -> ucData [] ns = VC -> vcData
              [] ns = AK -> akData [] ns = DA -> daData

\* DB.Put and DB.Delete on the map.
Put(data, k, v) == [x \in (DOMAIN data) \cup {k} |-> IF x = k THEN v ELSE data[x]]
Del(data, k) == [x \in (DOMAIN data) \ {k} |-> data[x]]

\* The handle the store holds is the one the engine has open: calls through it
\* reach the data.  A handle the engine has closed answers ErrClosed.
Usable(ns) == handle[ns] # Nil /\ live[ns] = handle[ns]

\* Nothing can be read.
NoRecords == [ok |-> FALSE, recs |-> <<>>]

\* What a reader of the store sees through its handle.
Visible(ns) == IF Usable(ns) THEN [ok |-> TRUE, recs |-> Data(ns)]
               ELSE NoRecords

\* Mutant: Iterator.First() in place of Iterator.Last().
LastKey_First(data) ==
    CHOOSE k \in DOMAIN data : \A j \in DOMAIN data : j = k \/ LexLess(k, j)

\* Iterator.Last(): the greatest key in the comparer's order.
LastKey(data) ==
    CHOOSE k \in DOMAIN data : \A j \in DOMAIN data : j = k \/ LexLess(j, k)

\* The keys in the order Iterator.Next() yields them.
RECURSIVE IterKeys(_)
IterKeys(K) ==
    IF K = {} THEN <<>>
    ELSE LET first == CHOOSE k \in K : \A j \in K : j = k \/ LexLess(k, j)
         IN  <<first>> \o IterKeys(K \ {first})

\* A method called through a nil handle dereferences it: the goroutine
\* panics and the process ends.
Panic(method) ==
         /\ panicked' = method
         /\ UNCHANGED <<handle, live, opens, closes, ucData, vcData, akData,
                        daData, op, ret, revoked, shown>>

NoError == "nil"
\* What leveldb.OpenFile returns: a handle and an error.
NoResult == [db |-> Nil, err |-> NoError]
OpenError == "error"
Void == "void"

---------------------------------------------------------------------------
(* OpenDB / CloseDB, the same code in the four stores.                     *)

\* Mutant: OpenDB without the "already open" check.
OpenDB_NoCheck(ns, ok) ==
    /\ panicked = "no"
    /\ opens[ns] < MaxOpens
    /\ opens' = [opens EXCEPT ![ns] = @ + 1]
    /\ IF ok /\ live[ns] = Nil
       THEN /\ handle' = [handle EXCEPT ![ns] = opens[ns] + 1]
            /\ live' = [live EXCEPT ![ns] = opens[ns] + 1]
            /\ shown' = [shown EXCEPT ![ns] = NoRecords]
            /\ ret' = NoError
       ELSE /\ handle' = [handle EXCEPT ![ns] = Nil]
            /\ ret' = OpenError
            /\ UNCHANGED <<live, shown>>
    /\ op' = [name |-> "OpenDB", ns |-> ns, wasOpen |-> handle[ns] # Nil]
    /\ UNCHANGED <<closes, ucData, vcData, akData, daData, panicked, revoked>>
    /\ UNCHANGED <<onceVars, pathVars, callVars, iters>>

\* OpenDB: a no-op success on an open handle; otherwise the path is resolved,
\* leveldb.OpenFile is called and its two results are stored and returned.
\* ok: whether the engine's open succeeds when the path is free.
OpenDB(ns, ok) ==
    /\ panicked = "no"
    /\ IF handle[ns] # Nil
       THEN /\ ret' = NoError
            /\ UNCHANGED <<handle, live, opens, shown>>
       ELSE /\ opens[ns] < MaxOpens
            /\ opens' = [opens EXCEPT ![ns] = @ + 1]
            /\ IF ok /\ live[ns] = Nil
               THEN /\ handle' = [handle EXCEPT ![ns] = opens[ns] + 1]
                    /\ live' = [live EXCEPT ![ns] = opens[ns] + 1]
                    /\ shown' = [shown EXCEPT ![ns] = NoRecords]
                    /\ ret' = NoError
               ELSE /\ handle' = [handle EXCEPT ![ns] = Nil]
                    /\ ret' = OpenError
                    /\ UNCHANGED <<live, shown>>
    /\ op' = [name |-> "OpenDB", ns |-> ns, wasOpen |-> handle[ns] # Nil]
    /\ UNCHANGED <<closes, ucData, vcData, akData, daData, panicked, revoked>>
    /\ UNCHANGED <<onceVars, pathVars, callVars, iters>>

\* Mutant: CloseDB without the nil check.
CloseDB_NoNilCheck(ns) ==
    /\ panicked = "no"
    /\ UNCHANGED <<onceVars, pathVars, callVars, iters>>
    /\ IF handle[ns] = Nil THEN Panic("CloseDB")
       ELSE /\ closes' = [closes EXCEPT ![ns] = @ + 1]
            /\ live' = [live EXCEPT ![ns] = IF @ = handle[ns] THEN Nil ELSE @]
            /\ handle' = [handle EXCEPT ![ns] = Nil]
            /\ shown' = [shown EXCEPT ![ns] = Visible(ns)]
            /\ op' = [name |-> "CloseDB", ns |-> ns, wasOpen |-> TRUE]
            /\ ret' = Void
            /\ UNCHANGED <<opens, ucData, vcData, akData, daData, panicked, revoked>>

\* Mutant: CloseDB that leaves the closed handle in the field.
CloseDB_KeepHandle(ns) ==
    /\ panicked = "no"
    /\ IF handle[ns] = Nil
       THEN UNCHANGED <<live, closes, shown>>
       ELSE /\ closes' = [closes EXCEPT ![ns] = @ + 1]
            /\ live' = [live EXCEPT ![ns] = IF @ = handle[ns] THEN Nil ELSE @]
            /\ shown' = [shown EXCEPT ![ns] = Visible(ns)]
    /\ op' = [name |-> "CloseDB", ns |-> ns, wasOpen |-> handle[ns] # Nil]
    /\ ret' = Void
    /\ UNCHANGED <<handle, opens, ucData, vcData, akData, daData, panicked, revoked>>
    /\ UNCHANGED <<onceVars, pathVars, callVars, iters>>

\* CloseDB: a no-op on a nil handle; otherwise DB.Close() and the handle is
\* set back to nil.
CloseDB(ns) ==
    /\ panicked = "no"
    /\ IF handle[ns] = Nil
       THEN UNCHANGED <<handle, live, closes, shown>>
       ELSE /\ closes' = [closes EXCEPT ![ns] = @ + 1]
            /\ live' = [live EXCEPT ![ns] = IF @ = handle[ns] THEN Nil ELSE @]
            /\ handle' = [handle EXCEPT ![ns] = Nil]
            /\ shown' = [shown EXCEPT ![ns] = Visible(ns)]
    /\ op' = [name |-> "CloseDB", ns |-> ns, wasOpen |-> handle[ns] # Nil]
    /\ ret' = Void
    /\ UNCHANGED <<opens, ucData, vcData, akData, daData, panicked, revoked>>
    /\ UNCHANGED <<onceVars, pathVars, callVars, iters>>

UC_OpenDB == \E ok \in BOOLEAN : OpenDB(UC, ok)
UC_CloseDB == CloseDB(UC)
VC_OpenDB == \E ok \in BOOLEAN : OpenDB(VC, ok)
VC_CloseDB == CloseDB(VC)
AK_OpenDB == \E ok \in BOOLEAN : OpenDB(AK, ok)
AK_CloseDB == CloseDB(AK)
DA_OpenDB == \E ok \in BOOLEAN : OpenDB(DA, ok)
DA_CloseDB == CloseDB(DA)

---------------------------------------------------------------------------
(* UserCheckpoint.                                                         *)

\* Add(height, hash): Put under the formatted height, KeyOf[height]; the error
\* is dropped.
UC_Add(height, hash) ==
    /\ panicked = "no"
    /\ UNCHANGED <<onceVars, pathVars, callVars, iters>>
    /\ IF handle[UC] = Nil THEN Panic("Add")
       ELSE /\ KeyOf[height] \in DOMAIN ucData \/ Cardinality(DOMAIN ucData) < MaxKeys
            /\ ucData' = IF Usable(UC) THEN Put(ucData, KeyOf[height], hash) ELSE ucData
            /\ op' = [name |-> "Add", ns |-> UC]
            /\ ret' = Void
            /\ UNCHANGED <<handle, live, opens, closes, vcData, akData, daData,
                           panicked, revoked, shown>>

\* Delete(height): Delete of the formatted height; the error is dropped.
UC_Delete(height) ==
    /\ panicked = "no"
    /\ UNCHANGED <<onceVars, pathVars, callVars, iters>>
    /\ IF handle[UC] = Nil THEN Panic("Delete")
       ELSE /\ ucData' = IF Usable(UC) THEN Del(ucData, KeyOf[height]) ELSE ucData
            /\ op' = [name |-> "Delete", ns |-> UC]
            /\ ret' = Void
            /\ UNCHANGED <<handle, live, opens, closes, vcData, akData, daData,
                           panicked, revoked, shown>>

\* What GetMaxCheckpointHeight returns on the given content: 0 when the
\* iterator is not valid after Last(), else the parsed last key.
MaxCheckpointHeight(data) ==
    IF DOMAIN data = {} THEN Zero64 ELSE ParseInt(LastKey(data))

\* GetMaxCheckpointHeight: NewIterator, Last(); when the iterator is not
\* valid the method returns with the iterator unreleased, else it parses the
\* key and calls Release().
UC_GetMaxCheckpointHeight ==
    /\ panicked = "no"
    /\ UNCHANGED <<onceVars, pathVars, callVars>>
    /\ IF handle[UC] = Nil THEN Panic("GetMaxCheckpointHeight") /\ UNCHANGED iters
       ELSE /\ DOMAIN Visible(UC).recs # {} \/ iters[UC] < MaxIters
            /\ iters' = [iters EXCEPT ![UC] =
                            IF DOMAIN Visible(UC).recs = {} THEN @ + 1
                            ELSE (@ + 1) - 1]
            /\ ret' = MaxCheckpointHeight(Visible(UC).recs)
            /\ op' = [name |-> "GetMaxCheckpointHeight", ns |-> UC]
            /\ UNCHANGED <<handle, live, opens, closes, ucData, vcData, akData,
                           daData, panicked, revoked, shown>>

---------------------------------------------------------------------------
(* VolatileCheckpoint.                                                     *)

VC_Set(height, hash) ==
    /\ panicked = "no"
    /\ UNCHANGED <<onceVars, pathVars, callVars, iters>>
    /\ IF handle[VC] = Nil THEN Panic("Set")
       ELSE /\ KeyOf[height] \in DOMAIN vcData \/ Cardinality(DOMAIN vcData) < MaxKeys
            /\ vcData' = IF Usable(VC) THEN Put(vcData, KeyOf[height], hash) ELSE vcData
            /\ op' = [name |-> "Set", ns |-> VC]
            /\ ret' = Void
            /\ UNCHANGED <<handle, live, opens, closes, ucData, akData, daData,
                           panicked, revoked, shown>>

\* Mutant: the iterator is advanced once before the loop's first Next().
ClearOrder_SkipFirst(data) ==
    IF DOMAIN data = {} THEN <<>> ELSE Tail(IterKeys(DOMAIN data))

\* The keys ClearDB's loop visits: every key of the iterator's snapshot, in
\* key order, starting with the first Next().
ClearOrder(data) == IterKeys(DOMAIN data)

\* Mutant: a loop that goes on to the next key after a Delete that failed.
Cleared_Continue(keys, n) == {keys[i] : i \in (1..Len(keys)) \ {n + 1}}

\* The keys the loop deletes when its Delete calls succeed n times and then
\* one fails: the first n in iteration order, the break leaves the rest.
Cleared(keys, n) == {keys[i] : i \in 1..n}

\* ClearDB: NewIterator, then the visited keys are deleted one by one up to
\* the first Delete that fails, then Release().  n: how many deletes succeed
\* before one fails (all of them when n is the number of keys).
VC_ClearDB(n) ==
    /\ panicked = "no"
    /\ UNCHANGED <<onceVars, pathVars, callVars>>
    /\ IF handle[VC] = Nil THEN Panic("ClearDB") /\ UNCHANGED iters
       ELSE \E keys \in {ClearOrder(Visible(VC).recs)} :
                /\ n <= Len(keys)
                /\ iters' = [iters EXCEPT ![VC] = (@ + 1) - 1]
                /\ vcData' = [k \in (DOMAIN vcData) \ Cleared(keys, n) |-> vcData[k]]
                /\ op' = [name |-> "ClearDB", ns |-> VC, visited |-> Len(keys),
                          deleted |-> n, failed |-> n < Len(keys)]
                /\ ret' = Void
                /\ UNCHANGED <<handle, live, opens, closes, ucData, akData, daData,
                               panicked, revoked, shown>>

---------------------------------------------------------------------------
(* AlertKey.                                                               *)

\* Set(key): the key is marked "true".
AK_Set(key) ==
    /\ panicked = "no"
    /\ UNCHANGED <<onceVars, pathVars, callVars, iters>>
    /\ IF handle[AK] = Nil THEN Panic("Set")
       ELSE /\ akData' = IF Usable(AK) THEN Put(akData, key, "true") ELSE akData
            /\ revoked' = revoked \cup {key}
            /\ op' = [name |-> "Set", ns |-> AK]
            /\ ret' = Void
            /\ UNCHANGED <<handle, live, opens, closes, ucData, vcData, daData,
                           panicked, shown>>

\* DB.Get: the value and whether an error came back.  A missing key is the
\* error ErrNotFound; fails says the engine fails the read for another reason.
\* The value returned with an error is nil, the empty string once converted.
Get(data, key, fails) ==
    IF fails \/ key \notin DOMAIN data THEN [val |-> "", err |-> TRUE]
    ELSE [val |-> data[key], err |-> FALSE]

\* IsValid: read the main key, write "false" under it if the read gave an
\* error; the same for the sub key; true when both values read are "false".
AK_IsValid(fails1, fails2) ==
    /\ panicked = "no"
    /\ UNCHANGED <<onceVars, pathVars, callVars, iters>>
    /\ IF handle[AK] = Nil THEN Panic("IsValid")
       ELSE LET db0 == Visible(AK)
                d1 == Get(db0.recs, AlertPubMainKey, fails1 \/ ~db0.ok)
                db1 == IF d1.err /\ db0.ok
                       THEN Put(db0.recs, AlertPubMainKey, "false") ELSE db0.recs
                d2 == Get(db1, AlertPubSubKey, fails2 \/ ~db0.ok)
                db2 == IF d2.err /\ db0.ok
                       THEN Put(db1, AlertPubSubKey, "false") ELSE db1
            IN  /\ akData' = IF db0.ok THEN db2 ELSE akData
                /\ ret' = (d1.val = "false" /\ d2.val = "false")
                /\ op' = [name |-> "IsValid", ns |-> AK,
                          absent |-> {k \in {AlertPubMainKey, AlertPubSubKey} :
                                        k \notin DOMAIN akData}]
                /\ UNCHANGED <<handle, live, opens, closes, ucData, vcData, daData,
                               panicked, revoked, shown>>

---------------------------------------------------------------------------
(* DenyAddress.                                                            *)

DA_Set(address) ==
    /\ panicked = "no"
    /\ UNCHANGED <<onceVars, pathVars, callVars, iters>>
    /\ IF handle[DA] = Nil THEN Panic("Set")
       ELSE /\ daData' = IF Usable(DA) THEN Put(daData, address, "0") ELSE daData
            /\ op' = [name |-> "Set", ns |-> DA]
            /\ ret' = Void
            /\ UNCHANGED <<handle, live, opens, closes, ucData, vcData, akData,
                           panicked, revoked, shown>>

---------------------------------------------------------------------------
(* Get*DbInstance: once.Do(func() { time.Sleep(1s); instance = &T{nil} })  *)
(* followed by return instance, one copy per store.  sync.Once.Do reads    *)
(* its done flag, and if it is unset takes the mutex, reads the flag again,*)
(* runs the function, sets the flag and releases the mutex.                *)

Goroutines == 1..NumGoroutines

\* A goroutine calls the Get*DbInstance of store ns.
Call(g, ns) ==
    /\ pc[g] = "idle"
    /\ pc' = [pc EXCEPT ![g] = "check"]
    /\ cur' = [cur EXCEPT ![g] = ns]
    /\ UNCHANGED <<done, mu, instance, built, got>>
    /\ UNCHANGED <<storeVars, pathVars, callVars, iters>>

\* Once.Do, fast path: done already set, Do returns at once.
OnceCheck(g) ==
    /\ pc[g] = "check"
    /\ pc' = [pc EXCEPT ![g] = IF done[cur[g]] THEN "return" ELSE "lock"]
    /\ UNCHANGED <<cur, done, mu, instance, built, got>>
    /\ UNCHANGED <<storeVars, pathVars, callVars, iters>>

\* Mutant: a once that tests its flag without taking the mutex.
OnceLock_NoMutex(g) ==
    /\ pc[g] = "lock"
    /\ pc' = [pc EXCEPT ![g] = "locked"]
    /\ UNCHANGED <<cur, done, mu, instance, built, got>>
    /\ UNCHANGED <<storeVars, pathVars, callVars, iters>>

\* Once.doSlow: o.m.Lock() blocks while another goroutine holds the mutex.
OnceLock(g) ==
    /\ pc[g] = "lock"
    /\ mu[cur[g]] = {}
    /\ mu' = [mu EXCEPT ![cur[g]] = {g}]
    /\ pc' = [pc EXCEPT ![g] = "locked"]
    /\ UNCHANGED <<cur, done, instance, built, got>>
    /\ UNCHANGED <<storeVars, pathVars, callVars, iters>>

\* Once.doSlow: done is read again under the mutex.
OnceRecheck(g) ==
    /\ pc[g] = "locked"
    /\ pc' = [pc EXCEPT ![g] = IF done[cur[g]] THEN "unlock" ELSE "sleep"]
    /\ UNCHANGED <<cur, done, mu, instance, built, got>>
    /\ UNCHANGED <<storeVars, pathVars, callVars, iters>>

\* The function passed to Do: time.Sleep(1 * time.Second) has elapsed.
Sleep(g) ==
    /\ pc[g] = "sleep"
    /\ pc' = [pc EXCEPT ![g] = "construct"]
    /\ UNCHANGED <<cur, done, mu, instance, built, got>>
    /\ UNCHANGED <<storeVars, pathVars, callVars, iters>>

\* The function passed to Do: instance = &T{nil}, a freshly allocated object.
Construct(g) ==
    /\ pc[g] = "construct"
    /\ built' = [built EXCEPT ![cur[g]] = @ + 1]
    /\ instance' = [instance EXCEPT ![cur[g]] = built[cur[g]] + 1]
    /\ pc' = [pc EXCEPT ![g] = "store"]
    /\ UNCHANGED <<cur, done, mu, got>>
    /\ UNCHANGED <<storeVars, pathVars, callVars, iters>>

\* Once.doSlow: the deferred o.done.Store(1).
OnceStore(g) ==
    /\ pc[g] = "store"
    /\ done' = [done EXCEPT ![cur[g]] = TRUE]
    /\ pc' = [pc EXCEPT ![g] = "unlock"]
    /\ UNCHANGED <<cur, mu, instance, built, got>>
    /\ UNCHANGED <<storeVars, pathVars, callVars, iters>>

\* Once.doSlow: the deferred o.m.Unlock().
OnceUnlock(g) ==
    /\ pc[g] = "unlock"
    /\ mu' = [mu EXCEPT ![cur[g]] = @ \ {g}]
    /\ pc' = [pc EXCEPT ![g] = "return"]
    /\ UNCHANGED <<cur, done, instance, built, got>>
    /\ UNCHANGED <<storeVars, pathVars, callVars, iters>>

\* return instance
Return(g) ==
    /\ pc[g] = "return"
    /\ got' = [got EXCEPT ![cur[g]] = @ \cup {instance[cur[g]]}]
    /\ pc' = [pc EXCEPT ![g] = "idle"]
    /\ UNCHANGED <<cur, done, mu, instance, built>>
    /\ UNCHANGED <<storeVars, pathVars, callVars, iters>>

GetDbInstance ==
    \E g \in Goroutines :
        \/ \E ns \in NS : Call(g, ns)
        \/ OnceCheck(g)
        \/ OnceLock(g)
        \/ OnceRecheck(g)
        \/ Sleep(g)
        \/ Construct(g)
        \/ OnceStore(g)
        \/ OnceUnlock(g)
        \/ Return(g)

---------------------------------------------------------------------------
(* OpenDB called by several goroutines on the singleton of a store.  The   *)
(* method takes no lock; its statements are the steps: the test of the     *)
(* field (with the path resolution, which changes nothing under the        *)
(* default command line), the call of leveldb.OpenFile, the assignment of  *)
(* its first result to the field, the return of its second.                *)

\* The stores whose OpenDB the goroutines call.
OpenStores == {UC, AK}

\* if uc.Ucdb != nil { return nil }; dbpath := Get*DbPath()
OpenDB_Check(g, ns) ==
    /\ panicked = "no"
    /\ at[g] = "idle"
    /\ self' = [self EXCEPT ![g] = ns]
    /\ at' = [at EXCEPT ![g] = IF handle[ns] # Nil THEN "return" ELSE "open"]
    /\ UNCHANGED <<res, returned>>
    /\ UNCHANGED <<storeVars, onceVars, pathVars, iters>>

\* leveldb.OpenFile(dbpath, nil): the engine takes the lock of the directory
\* and returns a handle, or returns an error; it fails when the process
\* already holds the directory open.  ok: whether the open succeeds when the
\* path is free.
OpenDB_OpenFile(g, ok) ==
    /\ panicked = "no"
    /\ at[g] = "open"
    /\ opens[self[g]] < MaxOpens
    /\ opens' = [opens EXCEPT ![self[g]] = @ + 1]
    /\ IF ok /\ live[self[g]] = Nil
       THEN /\ live' = [live EXCEPT ![self[g]] = opens[self[g]] + 1]
            /\ res' = [res EXCEPT ![g] = [db |-> opens[self[g]] + 1, err |-> NoError]]
       ELSE /\ res' = [res EXCEPT ![g] = [db |-> Nil, err |-> OpenError]]
            /\ UNCHANGED live
    /\ op' = [name |-> "OpenFile", ns |-> self[g], wasLive |-> live[self[g]] # Nil]
    /\ at' = [at EXCEPT ![g] = "assign"]
    /\ UNCHANGED <<handle, closes, ucData, vcData, akData, daData, panicked, ret,
                   revoked, shown, self, returned>>
    /\ UNCHANGED <<onceVars, pathVars, iters>>

\* uc.Ucdb, err = ...: the handle returned, nil with an error, is stored in
\* the field.
OpenDB_Assign(g) ==
    /\ panicked = "no"
    /\ at[g] = "assign"
    /\ handle' = [handle EXCEPT ![self[g]] = res[g].db]
    /\ at' = [at EXCEPT ![g] = "return"]
    /\ UNCHANGED <<live, opens, closes, ucData, vcData, akData, daData, panicked,
                   op, ret, revoked, shown, self, res, returned>>
    /\ UNCHANGED <<onceVars, pathVars, iters>>

\* return nil / return err
OpenDB_Return(g) ==
    /\ panicked = "no"
    /\ at[g] = "return"
    /\ returned' = [returned EXCEPT ![self[g]] = @ \cup {res[g].err}]
    /\ res' = [res EXCEPT ![g] = NoResult]
    /\ at' = [at EXCEPT ![g] = "idle"]
    /\ UNCHANGED self
    /\ UNCHANGED <<storeVars, onceVars, pathVars, iters>>

---------------------------------------------------------------------------
(* Get*DbPath: the path of a store's database directory.  The two packages *)
(* hold the same four (database) or three (checkpoint) copies of one       *)
(* function; they differ in how the network selection is read.             *)

\* The two packages, each with its own package-level variables.
Database == "database"
Checkpoint == "checkpoint"
Packages == {Database, Checkpoint}

\* The stores each package has.
StoresOf(pkg) == IF pkg = Database THEN NS ELSE NS \ {DA}

\* The network options: the flags of package database, the config fields
\* TestNet4, RegressionTest and SimNet of package checkpoint.
Testnet == "testnet"
Regtest == "regtest"
Simnet == "simnet"
NetFlags == {Testnet, Regtest, Simnet}

\* The network parameters of chaincfg: the network identifier and the name.
MainNetParams == [Net |-> "MainNet", Name |-> "mainnet"]
TestNet4Params == [Net |-> "TestNet4", Name |-> "testnet4"]
RegressionNetParams == [Net |-> "TestNet", Name |-> "regtest"]
SimNetParams == [Net |-> "SimNet", Name |-> "simnet"]

\* Mutant: the network's name with no override.
netName_Plain(chainParams) == chainParams.Name

netName(chainParams) ==
    IF chainParams.Net = "TestNet4" THEN "testnet" ELSE chainParams.Name

\* monautil.AppDataDir("monad", false) on a POSIX system, and the data
\* directory below it.
monadHomeDir == "~/.monad"
defaultDataDir == monadHomeDir \o "/" \o "data"
defaultDbType == "leveldb"

\* A data directory given with --datadir, and no --datadir ("").
DataDirs == {"", "/D"}

\* filepath.Join of three clean elements.
Join(a, b, c) == a \o "/" \o b \o "/" \o c

\* The three ifs of Get*DbPath, in their order: each option that is set
\* overwrites activeNetParams, the last one set wins; with none set
\* activeNetParams keeps the value it has.
Select(params, testnet, regtest, simnet) ==
    LET p1 == IF testnet THEN TestNet4Params ELSE params
        p2 == IF regtest THEN RegressionNetParams ELSE p1
    IN  IF simnet THEN SimNetParams ELSE p2

\* dbName and dbPath of Get*DbPath.
DbPath(prefix, params) ==
    Join(defaultDataDir, netName(params), prefix \o "_" \o defaultDbType)

\* The history kept of Get*DbPath calls: the first call and whether all calls
\* had its selection.
NoCall == [pkg |-> "none", ns |-> "none", sel |-> {}, path |-> ""]
Remember(pkg, ns, sel, path) ==
    /\ firstCall' = IF firstCall = NoCall
                THEN [pkg |-> pkg, ns |-> ns, sel |-> sel, path |-> path]
                ELSE firstCall
    /\ steady' = (steady /\ (firstCall = NoCall \/ firstCall.sel = sel))

\* os.Exit: the process ends inside Get*DbPath, no path is returned.
Exit(pkg, ns, sel, datadir) ==
    /\ panicked' = "os.Exit"
    /\ op' = [name |-> "GetDbPath", pkg |-> pkg, ns |-> ns, sel |-> sel,
              datadir |-> datadir]
    /\ UNCHANGED <<ret, activeNetParams, flags, firstCall, steady>>

\* Package database, Get*DbPath of store ns.  flag.Parse() reads the command
\* line: args are the network flags given on it, bad says it does not parse
\* (flag.ExitOnError ends the process).  A flag that is not given keeps its
\* value.  No check is made on how many flags are set.
DB_GetDbPath(ns, args, bad) ==
    /\ panicked = "no"
    /\ IF bad THEN Exit(Database, ns, args, "")
       ELSE LET parsed == [f \in NetFlags |-> flags[f] \/ f \in args]
                params == Select(activeNetParams[Database], parsed[Testnet],
                                 parsed[Regtest], parsed[Simnet])
                path == DbPath(ns, params)
            IN  /\ flags' = parsed
                /\ activeNetParams' = [activeNetParams EXCEPT ![Database] = params]
                /\ ret' = path
                /\ op' = [name |-> "GetDbPath", pkg |-> Database, ns |-> ns,
                          sel |-> args, datadir |-> ""]
                /\ Remember(Database, ns, args, path)
                /\ UNCHANGED panicked
    /\ UNCHANGED <<handle, live, opens, closes, ucData, vcData, akData, daData,
                   revoked, shown>>
    /\ UNCHANGED <<onceVars, callVars, iters>>

\* Package checkpoint, loadConfig: a fresh config is filled from the config
\* file and the command line.  sel: the network options they set; datadir:
\* the --datadir they give; bad: parser.Parse() returns an error.  numNets
\* counts TestNet4 and SimNet.
loadConfig(sel, datadir, bad) ==
    LET numNets == (IF Testnet \in sel THEN 1 ELSE 0)
                   + (IF Simnet \in sel THEN 1 ELSE 0)
    IN  IF bad \/ numNets > 1 THEN [err |-> TRUE]
        ELSE [err |-> FALSE,
              cfg |-> [DataDir |-> datadir, TestNet4 |-> Testnet \in sel,
                       RegressionTest |-> Regtest \in sel, SimNet |-> Simnet \in sel]]

\* Package checkpoint, Get*DbPath of store ns: os.Exit(1) when loadConfig
\* fails, else the three ifs on the loaded config and the path below
\* defaultDataDir.
CP_GetDbPath(ns, sel, datadir, bad) ==
    /\ panicked = "no"
    /\ \E loaded \in {loadConfig(sel, datadir, bad)} :
         IF loaded.err THEN Exit(Checkpoint, ns, sel, datadir)
         ELSE LET params == Select(activeNetParams[Checkpoint], loaded.cfg.TestNet4,
                                   loaded.cfg.RegressionTest, loaded.cfg.SimNet)
                  path == DbPath(ns, params)
              IN  /\ activeNetParams' = [activeNetParams EXCEPT ![Checkpoint] = params]
                  /\ ret' = path
                  /\ op' = [name |-> "GetDbPath", pkg |-> Checkpoint, ns |-> ns,
                            sel |-> sel, datadir |-> datadir]
                  /\ Remember(Checkpoint, ns, sel, path)
                  /\ UNCHANGED <<panicked, flags>>
    /\ UNCHANGED <<handle, live, opens, closes, ucData, vcData, akData, daData,
                   revoked, shown>>
    /\ UNCHANGED <<onceVars, callVars, iters>>

---------------------------------------------------------------------------
(* The key encoding on its own: the keys Add, Delete and Set compute for   *)
(* two heights.                                                            *)

\* Heights around every change of the number of digits the model's limbs
\* can hide (1/9/10, 10^7, 10^14) and the two ends of int64, with the
\* heights of the store models.
KeyHeights ==
    Heights \cup {Small(1), Small(9), Small(10), Small(99),
                  I64(FALSE, 0, 0, 9999999), I64(FALSE, 0, 1, 0),
                  I64(FALSE, 0, 9999999, 9999999), I64(FALSE, 1, 0, 0),
                  I64(FALSE, 92233, 7203685, 4775806)}

\* []byte(fmt.Sprintf("%020d", height)) for two heights.
Sprintf(a, b) ==
    /\ panicked = "no"
    /\ op' = [name |-> "Sprintf", ns |-> "none", a |-> a, b |-> b]
    /\ ret' = <<Format(a), Format(b)>>
    /\ UNCHANGED <<handle, live, opens, closes, ucData, vcData, akData, daData,
                   panicked, revoked, shown>>
    /\ UNCHANGED <<onceVars, pathVars, callVars, iters>>

---------------------------------------------------------------------------
(* Specifications.                                                         *)

Init ==
    /\ handle = [ns \in NS |-> Nil]
    /\ live = [ns \in NS |-> Nil]
    /\ opens = [ns \in NS |-> 0]
    /\ closes = [ns \in NS |-> 0]
    /\ ucData = <<>>
    /\ vcData = <<>>
    /\ akData = <<>>
    /\ daData = <<>>
    /\ panicked = "no"
    /\ op = [name |-> "none", ns |-> "none"]
    /\ ret = Void
    /\ revoked = {}
    /\ shown = [ns \in NS |-> NoRecords]
    /\ pc = [g \in Goroutines |-> "idle"]
    /\ cur = [g \in Goroutines |-> UC]
    /\ done = [ns \in NS |-> FALSE]
    /\ mu = [ns \in NS |-> {}]
    /\ instance = [ns \in NS |-> Nil]
    /\ built = [ns \in NS |-> 0]
    /\ got = [ns \in NS |-> {}]
    /\ activeNetParams = [pkg \in Packages |-> MainNetParams]
    /\ flags = [f \in NetFlags |-> FALSE]
    /\ firstCall = NoCall
    /\ steady = TRUE
    /\ at = [g \in Goroutines |-> "idle"]
    /\ self = [g \in Goroutines |-> UC]
    /\ res = [g \in Goroutines |-> NoResult]
    /\ returned = [ns \in NS |-> {}]
    /\ iters = [ns \in NS |-> 0]

\* The UserCheckpoint store used by one caller.
NextUC ==
    \/ UC_OpenDB
    \/ UC_CloseDB
    \/ \E h \in Heights, hash \in Hashes : UC_Add(h, hash)
    \/ \E h \in Heights : UC_Delete(h)
    \/ UC_GetMaxCheckpointHeight
SpecUC == Init /\ [][NextUC]_vars

\* The VolatileCheckpoint store used by one caller.
NextVC ==
    \/ VC_OpenDB
    \/ VC_CloseDB
    \/ \E h \in Heights, hash \in Hashes : VC_Set(h, hash)
    \/ \E n \in 0..MaxKeys : VC_ClearDB(n)
SpecVC == Init /\ [][NextVC]_vars

\* The AlertKey store used by one caller.
NextAK ==
    \/ AK_OpenDB
    \/ AK_CloseDB
    \/ \E key \in AlertKeys : AK_Set(key)
    \/ \E fails1 \in BOOLEAN, fails2 \in BOOLEAN : AK_IsValid(fails1, fails2)
SpecAK == Init /\ [][NextAK]_vars

\* The DenyAddress store used by one caller.
NextDA ==
    \/ DA_OpenDB
    \/ DA_CloseDB
    \/ \E address \in Addresses : DA_Set(address)
SpecDA == Init /\ [][NextDA]_vars

\* Goroutines calling the Get*DbInstance functions concurrently.
NextOnce == GetDbInstance
SpecOnce == Init /\ [][NextOnce]_vars

\* Goroutines calling OpenDB concurrently.
NextOpen ==
    \E g \in Goroutines :
        \/ \E ns \in OpenStores : OpenDB_Check(g, ns)
        \/ \E ok \in BOOLEAN : OpenDB_OpenFile(g, ok)
        \/ OpenDB_Assign(g)
        \/ OpenDB_Return(g)
SpecOpen == Init /\ [][NextOpen]_vars

\* The key encoding applied to pairs of heights.
NextKey == \E a \in KeyHeights, b \in KeyHeights : Sprintf(a, b)
SpecKey == Init /\ [][NextKey]_vars

\* Path resolution in package database.
NextPathDB ==
    \E ns \in StoresOf(Database), args \in SUBSET NetFlags, bad \in BOOLEAN :
        DB_GetDbPath(ns, args, bad)
SpecPathDB == Init /\ [][NextPathDB]_vars

\* Path resolution in package checkpoint.
NextPathCP ==
    \E ns \in StoresOf(Checkpoint), sel \in SUBSET NetFlags, datadir \in DataDirs,
       bad \in BOOLEAN :
        CP_GetDbPath(ns, sel, datadir, bad)
SpecPathCP == Init /\ [][NextPathCP]_vars

---------------------------------------------------------------------------
(* Properties.                                                             *)

\* The heights whose key is in the given store content.
Stored(data) == {h \in Heights : KeyOf[h] \in DOMAIN data}
NonNeg(h) == ~IsNeg(h)
IsGetMax == op.name = "GetMaxCheckpointHeight" /\ panicked = "no"

\* C1 as stated: with two heights h1 < h2 of any sign stored,
\* GetMaxCheckpointHeight returns max(h1, h2), and it returns 0 on an empty
\* namespace.
C1_AnySign ==
    IsGetMax =>
        /\ Stored(ucData) = {} => ret = Zero64
        /\ \A h1, h2 \in Heights :
             (NumLess(h1, h2) /\ Stored(ucData) = {h1, h2}) => ret = h2

\* C1 amended: with two heights h1 < h2 stored and h2 >= 0,
\* GetMaxCheckpointHeight returns max(h1, h2) = h2; it returns 0 on an empty
\* namespace.
C1_MaxOfTwo ==
    IsGetMax =>
        /\ Stored(ucData) = {} => ret = Zero64
        /\ \A h1, h2 \in Heights :
             (NumLess(h1, h2) /\ NonNeg(h2) /\ Stored(ucData) = {h1, h2}) => ret = h2

\* GetMaxCheckpointHeight has returned the greater of a negative and the
\* greatest positive height.
C1_Witness ==
    /\ IsGetMax
    /\ Stored(ucData) = {Small(-1), MaxInt64}
    /\ ret = MaxInt64

\* C2 as stated: GetMaxCheckpointHeight returns the greatest height stored,
\* and 0 when none is stored.
C2_Greatest ==
    IsGetMax =>
        ret = IF Stored(ucData) = {} THEN Zero64 ELSE MaxOf(Stored(ucData))

\* C2 amended: GetMaxCheckpointHeight returns the greatest height stored
\* whenever a non-negative height or only one height is stored, and 0 when
\* none is stored.
C2_GreatestNonNeg ==
    (/\ IsGetMax
     /\ \/ \E h \in Stored(ucData) : NonNeg(h)
        \/ Cardinality(Stored(ucData)) <= 1)
    => ret = IF Stored(ucData) = {} THEN Zero64 ELSE MaxOf(Stored(ucData))

\* The scenario: 100, 50 and 200 were added and 200 deleted again; 100 is
\* returned.
C2_Witness ==
    /\ IsGetMax
    /\ Stored(ucData) = {Small(50), Small(100)}
    /\ ret = Small(100)

\* C3: IsValid called with both alert keys absent returns true and leaves
\* both keys stored as "false".
C3_AbsentIsValid ==
    (/\ op.name = "IsValid"
     /\ panicked = "no"
     /\ op.absent = {AlertPubMainKey, AlertPubSubKey})
    => /\ ret = TRUE
       /\ AlertPubMainKey \in DOMAIN akData /\ akData[AlertPubMainKey] = "false"
       /\ AlertPubSubKey \in DOMAIN akData /\ akData[AlertPubSubKey] = "false"

\* C4: once Set has been called on the main or the sub alert key, every
\* IsValid call returns false.
C4_SetThenInvalid ==
    (/\ op.name = "IsValid"
     /\ panicked = "no"
     /\ revoked \cap {AlertPubMainKey, AlertPubSubKey} # {})
    => ret = FALSE

\* C5: an alert key stored as "true" is stored as "true" after every step.
C5_Irreversible ==
    [][\A k \in AlertKeys :
          (k \in DOMAIN akData /\ akData[k] = "true")
          => (k \in DOMAIN akData' /\ akData'[k] = "true")]_vars

\* C6: each store is constructed at most once; no Get*DbInstance call has
\* returned nil or two different instances; a call that is about to return
\* finds the construction finished, and nobody still constructing.
C6_Singleton ==
    \A ns \in NS :
        /\ built[ns] <= 1
        /\ Nil \notin got[ns]
        /\ got[ns] # {} => (got[ns] = {instance[ns]} /\ built[ns] = 1)
        /\ \A g \in Goroutines :
             (pc[g] = "return" /\ cur[g] = ns)
             => /\ done[ns]
                /\ instance[ns] # Nil
                /\ built[ns] = 1
                /\ \A g2 \in Goroutines :
                     cur[g2] = ns => pc[g2] \notin {"sleep", "construct", "store"}

\* Two goroutines made the first call of one store together: one constructed
\* it, the other waited for the mutex, and both are on their way out.
C6_Witness ==
    \E ns \in NS, g1, g2 \in Goroutines :
        /\ g1 # g2
        /\ cur[g1] = ns /\ cur[g2] = ns
        /\ pc[g1] = "return" /\ pc[g2] = "unlock"
        /\ got[ns] = {}

\* Whether the step taken is a call of the named method on store ns that
\* returned.
Returned(name, ns) ==
    /\ op'.name = name
    /\ op'.ns = ns
    /\ panicked' = panicked

\* C7: OpenDB called on an open handle returns no error, makes no
\* leveldb.OpenFile call and leaves the handle as it is.
C7_OpenIdempotent ==
    [][\A ns \in NS :
          (handle[ns] # Nil /\ Returned("OpenDB", ns))
          => /\ ret' = NoError
             /\ opens'[ns] = opens[ns]
             /\ handle'[ns] = handle[ns]
             /\ live'[ns] = live[ns]
             /\ Usable(ns)']_vars

\* OpenDB has been called on the open UserCheckpoint handle.
C7_Witness ==
    /\ op.name = "OpenDB" /\ op.ns = UC /\ op.wasOpen
    /\ panicked = "no"
    /\ Usable(UC)
    /\ opens[UC] = 1

\* C8: CloseDB never dereferences a nil handle; on a nil handle it touches
\* nothing of the engine, on an open handle it calls Close once, after which
\* the engine holds the store closed and the handle is nil.
C8_CloseSafe ==
    [][/\ panicked' # "CloseDB"
       /\ \A ns \in NS :
            Returned("CloseDB", ns)
            => IF handle[ns] = Nil
               THEN /\ closes'[ns] = closes[ns]
                    /\ live'[ns] = live[ns]
                    /\ handle'[ns] = Nil
                    /\ Data(ns)' = Data(ns)
               ELSE /\ closes'[ns] = closes[ns] + 1
                    /\ live'[ns] = Nil
                    /\ handle'[ns] = Nil]_vars

\* CloseDB has been called on the DenyAddress store after it was closed.
C8_Witness ==
    /\ op.name = "CloseDB" /\ op.ns = DA /\ ~op.wasOpen
    /\ panicked = "no"
    /\ opens[DA] = 1 /\ closes[DA] = 1

\* C9: OpenDB on a store that has been closed calls leveldb.OpenFile again,
\* and when that succeeds the handle is open and shows the records that were
\* readable before the close.
C9_Reopen ==
    [][\A ns \in NS :
          (live[ns] = Nil /\ closes[ns] >= 1 /\ Returned("OpenDB", ns))
          => /\ opens'[ns] = opens[ns] + 1
             /\ ret' = NoError
                => /\ Usable(ns)'
                   /\ shown[ns].ok
                   /\ Visible(ns)' = shown[ns]]_vars

\* The VolatileCheckpoint store was opened, written, closed and opened again.
C9_Witness ==
    /\ op.name = "OpenDB" /\ op.ns = VC /\ ~op.wasOpen
    /\ ret = NoError
    /\ opens[VC] = 2 /\ closes[VC] = 1
    /\ Usable(VC)
    /\ DOMAIN vcData # {}

\* C10: after a ClearDB in which no delete failed the namespace has no entry.
C10_ClearAll ==
    (op.name = "ClearDB" /\ panicked = "no" /\ ~op.failed) => DOMAIN vcData = {}

\* ClearDB has deleted MaxKeys keys.
C10_Witness ==
    /\ op.name = "ClearDB" /\ panicked = "no" /\ ~op.failed
    /\ op.visited = MaxKeys
    /\ DOMAIN vcData = {}

\* The directory names the networks are given.
NetDirs == {"mainnet", "testnet", "regtest", "simnet"}
GotDbPath == op.name = "GetDbPath" /\ panicked = "no"

\* C11 as stated: a Get*DbPath call made with more than one of testnet,
\* regtest and simnet selected ends the process; it returns no path.
C11_MultiNetFatal ==
    (op.name = "GetDbPath" /\ Cardinality(op.sel) > 1) => panicked = "os.Exit"

\* C12: in a process whose network selection is one network (one of the three
\* options, or none of them for mainnet) at every resolution, Get*DbPath of
\* each of the four stores returns <dataRoot>/<networkDirName>/<prefix>_leveldb,
\* with "testnet" for TestNet4 and mainnet, regtest, simnet for the others.
C12_PathFormat ==
    (GotDbPath /\ steady /\ Cardinality(op.sel) <= 1) =>
        LET dir == CASE op.sel = {} -> "mainnet"
                     [] op.sel = {Testnet} -> "testnet"
                     [] op.sel = {Regtest} -> "regtest"
                     [] op.sel = {Simnet} -> "simnet"
        IN  /\ op.ns \in {"usercheckpoints", "volatilecheckpoints", "alertkey",
                          "denyaddress"}
            /\ ret = defaultDataDir \o "/" \o dir \o "/" \o op.ns \o "_leveldb"

\* GetDenyAddressDbPath has returned the testnet path to a process run with
\* -testnet.
C12_Witness ==
    /\ GotDbPath /\ steady /\ op.sel = {Testnet} /\ op.ns = DA
    /\ activeNetParams[Database] = TestNet4Params
    /\ ret = "~/.monad/data/testnet/denyaddress_leveldb"

\* C13 as stated: with a data directory D configured, Get*DbPath returns a
\* path under D.
C13_UnderDataDir ==
    (GotDbPath /\ op.datadir # "") =>
        \E dir \in NetDirs : ret = Join(op.datadir, dir, op.ns \o "_leveldb")

\* C16 as stated: a call of the Get*DbPath function the process called first,
\* with the network selection of that first call, returns the path the first
\* call returned, whatever resolutions ran in between.
C16_Deterministic ==
    (GotDbPath /\ op.pkg = firstCall.pkg /\ op.ns = firstCall.ns
               /\ op.sel = firstCall.sel) => ret = firstCall.path

\* C14: for heights a and b in [0, 2^63-1] the key of a comes before the key
\* of b in byte order exactly when a < b, and both keys have 20 characters.
C14_KeyOrder ==
    (op.name = "Sprintf" /\ NonNeg(op.a) /\ NonNeg(op.b)) =>
        /\ LexLess(ret[1], ret[2]) <=> NumLess(op.a, op.b)
        /\ Len(ret[1]) = 20 /\ Len(ret[2]) = 20

\* The keys of 9999999 and 2^63-1 have been computed: 20 characters each,
\* the first before the second.
C14_Witness ==
    /\ op.name = "Sprintf"
    /\ op.a = I64(FALSE, 0, 0, 9999999) /\ op.b = MaxInt64
    /\ ret[1] = <<"0", "0", "0", "0", "0", "0", "0", "0", "0", "0", "0", "0", "0",
                  "9", "9", "9", "9", "9", "9", "9">>
    /\ ret[2] = <<"0", "9", "2", "2", "3", "3", "7", "2", "0", "3", "6", "8", "5",
                  "4", "7", "7", "5", "8", "0", "7">>
    /\ LexLess(ret[1], ret[2])

\* C17: a ClearDB in which a delete fails returns normally and leaves the
\* namespace without the keys that came before the failing one in iteration
\* order and with the failing key and every later key, their values as before.
C17_StopsAtFailure ==
    [][(Returned("ClearDB", VC) /\ op'.failed) =>
          LET keys == ClearOrder(Visible(VC).recs)
          IN  /\ ret' = Void
              /\ \A i \in 1..Len(keys) :
                   IF i <= op'.deleted THEN keys[i] \notin DOMAIN vcData'
                   ELSE /\ keys[i] \in DOMAIN vcData'
                        /\ vcData'[keys[i]] = vcData[keys[i]]
              /\ DOMAIN vcData' \subseteq DOMAIN vcData]_vars

\* ClearDB met three keys, deleted the first and failed on the second: the
\* second and the third are what the namespace holds.
C17_Witness ==
    /\ op.name = "ClearDB" /\ panicked = "no" /\ op.failed
    /\ op.visited = 3 /\ op.deleted = 1
    /\ Cardinality(DOMAIN vcData) = 2
    /\ ret = Void

\* C19 as stated: between operations no iterator of any store is outstanding.
C19_AllReleased == \A ns \in NS : iters[ns] = 0

\* C15 as stated: leveldb.OpenFile is never called for a store whose
\* directory the process already holds open, and the goroutines never hold
\* two different handles of one store.
C15_OpenedOnce ==
    /\ op.name = "OpenFile" => ~op.wasLive
    /\ \A g1, g2 \in Goroutines :
         (self[g1] = self[g2] /\ res[g1].db # Nil /\ res[g2].db # Nil)
             => res[g1].db = res[g2].db

\* C18 as stated: once every OpenDB call has returned, a store one of whose
\* calls returned no error has an open, usable handle.
C18_FailKeepsHandle ==
    \A ns \in OpenStores :
        ((\A g \in Goroutines : at[g] = "idle") /\ NoError \in returned[ns])
            => Usable(ns)

===========================================================================
